---- MODULE Spec2Model ----
(***************************************************************************)
(* Model of the Spelling Flashcard Game (src/unnamed/part_004) and of the  *)
(* challenge progress tracker (src/unnamed/part_006).                      *)
(*                                                                         *)
(*   Spec           one invocation of the Wordle-style guess scorer        *)
(*                  renderGuessRow (part_004:615-689), statement by        *)
(*                  statement                                              *)
(*   PureSpec       repeated invocations of the scorer                     *)
(*   GameSpec       the component SpellingFlashCardGame (part_004:283-941):*)
(*                  its state, handlers, effects and pending timers        *)
(*   GameFairSpec   GameSpec in which a timer that was set fires           *)
(*   GameTickFairSpec  GameSpec in which the session interval fires        *)
(*   DifficultySpec the dynamic-difficulty variant of the component        *)
(*                  (part_004:1140-1527)                                   *)
(*   ChallengeSpec  startChallenge, completeTask, uncompleteTask and       *)
(*                  advanceDay of part_006, with getUserDayTasks as an     *)
(*                  operator                                               *)
(*                                                                         *)
(* A word is a sequence of one-character strings.  Indices in the model    *)
(* are the 0-based indices of the code; a sequence is read at i + 1.       *)
(***************************************************************************)
EXTENDS Integers, Sequences, FiniteSets, TLC

\* ------------------------------------------------------------------------
\* Bounds of the enumerated inputs
\* ------------------------------------------------------------------------
MaxTargetLen == 3
MaxGuessLen == 3

\* Characters the enumerated words are built from: one letter in both
\* cases and a second letter.
Alphabet == {"a", "A", "b"}

\* The worked examples, and one guess that holds a letter once more than a
\* target with a repeated letter: target first, guess second.
ExamplePairs ==
  { << <<"A","P","P","L","E">>, <<"P","P","L","E","A">> >>,
    << <<"a","a","b">>, <<"A","B","A","A">> >>,
    << <<"E","R","R","O","R">>, <<"R","O","A","R">> >>,
    << <<"A","B">>, <<"B","B">> >> }

\* ------------------------------------------------------------------------
\* Characters and case conversion
\* ------------------------------------------------------------------------
LowerLetters == {"a", "b", "e", "l", "o", "p", "r"}
UpperLetters == {"A", "B", "E", "L", "O", "P", "R"}
Chars == LowerLetters \cup UpperLetters

\* The value of an out-of-range index (guess[i], targetWord[i]).
Undefined == "undefined"

\* The empty string, the fallback of  guess[i]?.toLowerCase() || ''.
EmptyStr == ""

\* String.prototype.toLowerCase on one character.
LowerOf ==
  [c \in Chars |->
     CASE c = "A" -> "a" [] c = "B" -> "b" [] c = "E" -> "e"
       [] c = "L" -> "l" [] c = "O" -> "o" [] c = "P" -> "p"
       [] c = "R" -> "r" [] OTHER -> c]

\* String.prototype.toUpperCase on one character.
UpperOf ==
  [c \in Chars |->
     CASE c = "a" -> "A" [] c = "b" -> "B" [] c = "e" -> "E"
       [] c = "l" -> "L" [] c = "o" -> "O" [] c = "p" -> "P"
       [] c = "r" -> "R" [] OTHER -> c]

\* A conversion that leaves the case alone (a scorer that forgot to fold).
KeepCase ==
  [c \in Chars |-> c]

\* currentPair.word.toLowerCase()
ToLowerCaseForgotten(w) ==
  w

ToLowerCase(w) ==
  [k \in 1..Len(w) |-> LowerOf[w[k]]]

\* All words over Alphabet of length 0..n.
WordsUpTo(n) ==
  UNION {[1..k -> Alphabet] : k \in 0..n}

\* ------------------------------------------------------------------------
\* The pieces of renderGuessRow
\* ------------------------------------------------------------------------
MaxOf(a, b) ==
  IF a >= b THEN a ELSE b

\* if (!currentPair?.word) return null;   (no pair, or an empty word)
EarlyReturnAlsoEmptyGuess(t, g) ==
  Len(t) = 0 \/ Len(g) = 0

EarlyReturn(t, g) ==
  Len(t) = 0

\* Math.max(currentPair.word.length, guess.length)
TotalCellsGuessOnly(t, g) ==
  Len(g)

TotalCellsTargetOnly(t, g) ==
  Len(t)

TotalCells(t, g) ==
  MaxOf(Len(t), Len(g))

\* guess[i]?.toLowerCase()          (undefined past the end of the guess)
GuessLetterOpt(g, i) ==
  IF i < Len(g) THEN LowerOf[g[i + 1]] ELSE Undefined

\* guess[i]?.toLowerCase() || ''
GuessedLetterKeepCase(g, i) ==
  IF i < Len(g) THEN KeepCase[g[i + 1]] ELSE EmptyStr

GuessedLetter(g, i) ==
  IF i < Len(g) THEN LowerOf[g[i + 1]] ELSE EmptyStr

\* targetWord[i]                    (undefined past the end of the target)
TargetLetter(tw, i) ==
  IF i < Len(tw) THEN tw[i + 1] ELSE Undefined

\* letterCounts.get(k) || 0
MapGetOr0(lc, k) ==
  IF k \in DOMAIN lc THEN lc[k] ELSE 0

\* letterCounts.set(k, v)
MapSet(lc, k, v) ==
  [x \in (DOMAIN lc) \cup {k} |-> IF x = k THEN v ELSE lc[x]]

\* letterCounts.get(k) > 0          (undefined > 0 is false)
MapPositive(lc, k) ==
  k \in DOMAIN lc /\ lc[k] > 0

EmptyMap == [x \in {} |-> 0]

\* A map that outlives the call (a module-level letterCounts).
SharedMap(old) ==
  old

\* const letterCounts = new Map()  (line 623): a fresh map per call.
NewMap(old) ==
  EmptyMap

\* One iteration of the counting loop (lines 627-632): the target letter at
\* i is counted unless the guess holds the same letter at i.
CountLetterAll(lc, tw, g, i) ==
  MapSet(lc, tw[i + 1], MapGetOr0(lc, tw[i + 1]) + 1)

CountLetter(lc, tw, g, i) ==
  IF GuessLetterOpt(g, i) # tw[i + 1]
    THEN MapSet(lc, tw[i + 1], MapGetOr0(lc, tw[i + 1]) + 1)
    ELSE lc

\* One iteration of the exact-match loop (lines 635-642).
MarkExactSameCaseOnly(ms, tw, g, i) ==
  IF GuessedLetterKeepCase(g, i) = TargetLetter(tw, i)
    THEN [ms EXCEPT ![i + 1] = "correct"]
    ELSE ms

MarkExact(ms, tw, g, i) ==
  IF GuessedLetter(g, i) = TargetLetter(tw, i)
    THEN [ms EXCEPT ![i + 1] = "correct"]
    ELSE ms

\* One iteration of the second pass (lines 645-656) on the pair
\* (matchStatus, letterCounts).
SecondStepNoDecrement(st, g, i) ==
  IF st.ms[i + 1] = "correct"
    THEN st
    ELSE IF GuessedLetter(g, i) # EmptyStr /\ MapPositive(st.lc, GuessedLetter(g, i))
           THEN [ms |-> [st.ms EXCEPT ![i + 1] = "wrong-position"], lc |-> st.lc]
           ELSE [ms |-> [st.ms EXCEPT ![i + 1] = "incorrect"], lc |-> st.lc]

SecondStep(st, g, i) ==
  IF st.ms[i + 1] = "correct"
    THEN st
    ELSE IF GuessedLetter(g, i) # EmptyStr /\ MapPositive(st.lc, GuessedLetter(g, i))
           THEN [ms |-> [st.ms EXCEPT ![i + 1] = "wrong-position"],
                 lc |-> MapSet(st.lc, GuessedLetter(g, i), st.lc[GuessedLetter(g, i)] - 1)]
           ELSE [ms |-> [st.ms EXCEPT ![i + 1] = "incorrect"], lc |-> st.lc]

\* The class of one rendered cell (lines 661-676); guessedLetter is
\* guess[index] || "".
CellClassNoMissing(status, guessedLetter) ==
  CASE status = "correct" -> "bg-green-500"
    [] status = "wrong-position" -> "bg-yellow-500"
    [] status = "incorrect" -> "bg-gray-400"
    [] OTHER -> ""

CellClass(status, guessedLetter) ==
  CASE status = "correct" -> "bg-green-500"
    [] status = "wrong-position" -> "bg-yellow-500"
    [] status = "incorrect" ->
         IF guessedLetter # EmptyStr THEN "bg-gray-400" ELSE "bg-red-500"
    [] OTHER -> ""

\* The rendered row (lines 658-688): one cell per index below totalCells,
\* showing guess[index] in upper case.
RenderRow(ms, g, n) ==
  [k \in 1..n |->
     [cls  |-> CellClass(ms[k], IF k <= Len(g) THEN g[k] ELSE EmptyStr),
      text |-> IF k <= Len(g) THEN UpperOf[g[k]] ELSE EmptyStr]]

\* ------------------------------------------------------------------------
\* The scorer as a function: the three loops run to completion
\* ------------------------------------------------------------------------
RECURSIVE CountLoop(_, _, _, _)
CountLoop(lc, tw, g, i) ==
  IF i < Len(tw) THEN CountLoop(CountLetter(lc, tw, g, i), tw, g, i + 1) ELSE lc

RECURSIVE ExactLoop(_, _, _, _, _)
ExactLoop(ms, tw, g, i, n) ==
  IF i < n THEN ExactLoop(MarkExact(ms, tw, g, i), tw, g, i + 1, n) ELSE ms

RECURSIVE SecondLoop(_, _, _, _)
SecondLoop(st, g, i, n) ==
  IF i < n THEN SecondLoop(SecondStep(st, g, i), g, i + 1, n) ELSE st

\* new Array(totalCells).fill('none')
FillNone(n) ==
  [k \in 1..n |-> "none"]

NullResult == [kind |-> "null", status |-> <<>>, cells |-> <<>>]

\* renderGuessRow(guess) with currentPair.word = t: null, or the
\* matchStatus array together with the rendered cells.
Classify(t, g) ==
  IF EarlyReturn(t, g)
    THEN NullResult
    ELSE LET n  == TotalCells(t, g)
             tw == ToLowerCase(t)
             lc == CountLoop(EmptyMap, tw, g, 0)
             ms == ExactLoop(FillNone(n), tw, g, 0, n)
             st == SecondLoop([ms |-> ms, lc |-> lc], g, 0, n)
         IN  [kind |-> "row", status |-> st.ms, cells |-> RenderRow(st.ms, g, n)]

\* ------------------------------------------------------------------------
\* State: one invocation of renderGuessRow, statement by statement
\* ------------------------------------------------------------------------
VARIABLES
  target,        \* currentPair.word (<<>>: no pair, or an empty word)
  guess,         \* the argument of renderGuessRow
  pc,            \* position in renderGuessRow
  i,             \* the loop variable of the running loop
  totalCells,    \* const totalCells
  targetWord,    \* const targetWord
  letterCounts,  \* const letterCounts = new Map()
  matchStatus,   \* const matchStatus
  result         \* the value returned

scorerVars == <<target, guess, pc, i, totalCells, targetWord, letterCounts,
                matchStatus, result>>

\* State of the SpellingFlashCardGame component (part_004:285-332), the
\* timers it has set, and what was last handed to the text-to-speech call.
VARIABLES
  currentPair,      \* useState<WordPair | null>(null)
  availableWords,   \* useState<WordPair[]>([])
  flipped,          \* useState(false)
  currentGuess,     \* useState("")
  guessHistory,     \* useState<string[]>([])
  attempt,          \* useState(0)
  score,            \* useState(0)
  gameOver,         \* useState(false)
  playerName,       \* useState("")
  showNamePrompt,   \* useState(false)
  leaderboard,      \* useState<{name, score}[]>([])
  message,          \* useState("")
  gameStarted,      \* useState(false)
  countdown,        \* useState(0)
  globalTimer,      \* useState(0)
  hintAvailable,    \* useState(false)
  nextRoundTimers,  \* pending setTimeout chains that end in startNewRound()
  hintTimer,        \* the pending 3000 ms timer of the hint effect
  tickClosure,      \* what the running global-timer interval captured
  ttsInput,         \* the input of the text-to-speech call of this step
  shown,            \* history: the words made current since Start Game
  sinceFlip3s       \* history: the hint timer of this round's flip has fired

gameVars == <<currentPair, availableWords, flipped, currentGuess, guessHistory,
              attempt, score, gameOver, playerName, showNamePrompt, leaderboard,
              message, gameStarted, countdown, globalTimer, hintAvailable,
              nextRoundTimers, hintTimer, tickClosure, ttsInput, shown,
              sinceFlip3s>>

\* An earlier invocation of renderGuessRow, kept for comparison, and the
\* state of the challenge tracker (part_006).
VARIABLES
  earlierCall,      \* history: inputs and result of an earlier invocation
  progress,         \* UserChallengeProgress | undefined
  now,              \* the clock read by new Date()
  dynamicGame       \* state of the dynamic-difficulty component (part_004:1140-1527)

otherVars == <<earlierCall, progress, now, dynamicGame>>

vars == <<scorerVars, gameVars, otherVars>>

\* ------------------------------------------------------------------------
\* The flashcard game: constants, the word pool, the mounted component
\* ------------------------------------------------------------------------
\* const MAX_ATTEMPTS = 3
MAX_ATTEMPTS == 3

\* The leaderboard keeps the five best entries (.length < 5, .slice(0, 5)).
LeaderboardSize == 5

\* const baseScore = 25 * currentPair.word.length
BaseScorePerLetter == 25

\* The countdown value at which the word is spoken (prev === 3).
SpeakAt == 3

\* Seconds of a session (selectedSessionDuration * 60), scaled down.
SessionTicks == 2

\* Seconds a card shows its front (adjustDisplayTime), scaled down.
DisplayTicks == 3

\* Number of high-score entries the player adds to the leaderboard.
MaxEntries == 1

\* The letter keys pressed (handleLetterClick receives key.toUpperCase()).
Keys == {"A", "B"}

\* import wordPairs from "./spelling-flash-card-words.json": word and
\* phonemic pattern.
wordPairs ==
  << [word |-> <<"A">>, pattern |-> <<"a">>],
     [word |-> <<"E">>, pattern |-> <<"e">>],
     [word |-> <<"O">>, pattern |-> <<"o">>] >>

\* The values of message.
MsgNone == [text |-> "", word |-> <<>>]
MsgTimeUp == [text |-> "Time's up! Game Over!", word |-> <<>>]
MsgCompleted ==
  [text |-> "Congratulations! You completed all the words!", word |-> <<>>]
MsgReveal(w) == [text |-> "The correct word was", word |-> w]

\* currentPair === null
NoPair == [word |-> <<>>, pattern |-> <<>>]

\* No text-to-speech call was made yet.
NoTts == [template |-> "none", text |-> <<>>]

\* No interval is running.
NoClosure == [live |-> FALSE, score |-> 0, leaderboard |-> <<>>]

\* The leaderboard found in localStorage at mount (335-340): a full one,
\* sorted as handleSubmitHighScore stores it.
StoredLeaderboards ==
  { << [name |-> "P1", score |-> 100], [name |-> "P2", score |-> 80],
       [name |-> "P3", score |-> 60], [name |-> "P4", score |-> 40],
       [name |-> "P5", score |-> 20] >> }

\* No earlier invocation was recorded.
NoCall == [kind |-> "none", target |-> <<>>, guess |-> <<>>, status |-> <<>>,
           cells |-> <<>>]

\* progress === undefined
NoProgress == [current_day |-> 0, task_completions |-> <<>>]

\* The dynamic-difficulty component is not mounted.
NotMounted == [currentWord |-> <<>>]

\* Nothing was recorded, no challenge was started, and the
\* dynamic-difficulty component is not mounted.
OthersIdle ==
  /\ earlierCall = NoCall
  /\ progress = NoProgress
  /\ now = 0
  /\ dynamicGame = NotMounted

\* The component after mount: the useState initial values (285-332) and
\* the leaderboard loaded by the mount effect (335-340).
Mounted(lb) ==
  /\ currentPair = NoPair
  /\ availableWords = <<>>
  /\ flipped = FALSE
  /\ currentGuess = <<>>
  /\ guessHistory = <<>>
  /\ attempt = 0
  /\ score = 0
  /\ gameOver = FALSE
  /\ playerName = ""
  /\ showNamePrompt = FALSE
  /\ leaderboard = lb
  /\ message = MsgNone
  /\ gameStarted = FALSE
  /\ countdown = 0
  /\ globalTimer = 0
  /\ hintAvailable = FALSE
  /\ nextRoundTimers = <<>>
  /\ hintTimer = "none"
  /\ tickClosure = NoClosure
  /\ ttsInput = NoTts
  /\ shown = <<>>
  /\ sinceFlip3s = FALSE

Pending == [kind |-> "pending", status |-> <<>>, cells |-> <<>>]

Inputs ==
  (WordsUpTo(MaxTargetLen) \X WordsUpTo(MaxGuessLen)) \cup ExamplePairs

Init ==
  /\ \E in \in Inputs : target = in[1] /\ guess = in[2]
  /\ pc = "enter"
  /\ i = 0
  /\ totalCells = 0
  /\ targetWord = <<>>
  /\ letterCounts = EmptyMap
  /\ matchStatus = <<>>
  /\ result = Pending
  /\ Mounted(<<>>)
  /\ OthersIdle

\* Lines 616-624: the guard and the local declarations.
Enter ==
  /\ pc = "enter"
  /\ IF EarlyReturn(target, guess)
       THEN /\ pc' = "done"
            /\ result' = NullResult
            /\ UNCHANGED <<totalCells, targetWord, letterCounts, matchStatus>>
       ELSE /\ pc' = "count"
            /\ totalCells' = TotalCells(target, guess)
            /\ targetWord' = ToLowerCase(target)
            /\ letterCounts' = NewMap(letterCounts)
            /\ matchStatus' = FillNone(TotalCells(target, guess))
            /\ UNCHANGED result
  /\ i' = 0
  /\ UNCHANGED <<target, guess>>
  /\ UNCHANGED <<gameVars, otherVars>>

\* Lines 627-632: for (let i = 0; i < targetWord.length; i++)
CountIter ==
  /\ pc = "count"
  /\ IF i < Len(targetWord)
       THEN /\ letterCounts' = CountLetter(letterCounts, targetWord, guess, i)
            /\ i' = i + 1
            /\ pc' = "count"
       ELSE /\ i' = 0
            /\ pc' = "exact"
            /\ UNCHANGED letterCounts
  /\ UNCHANGED <<target, guess, totalCells, targetWord, matchStatus, result>>
  /\ UNCHANGED <<gameVars, otherVars>>

\* Lines 635-642: for (let i = 0; i < totalCells; i++)
ExactIter ==
  /\ pc = "exact"
  /\ IF i < totalCells
       THEN /\ matchStatus' = MarkExact(matchStatus, targetWord, guess, i)
            /\ i' = i + 1
            /\ pc' = "exact"
       ELSE /\ i' = 0
            /\ pc' = "second"
            /\ UNCHANGED matchStatus
  /\ UNCHANGED <<target, guess, totalCells, targetWord, letterCounts, result>>
  /\ UNCHANGED <<gameVars, otherVars>>

\* Lines 645-656: for (let i = 0; i < totalCells; i++)
SecondIter ==
  /\ pc = "second"
  /\ IF i < totalCells
       THEN LET st == SecondStep([ms |-> matchStatus, lc |-> letterCounts], guess, i)
            IN  /\ matchStatus' = st.ms
                /\ letterCounts' = st.lc
                /\ i' = i + 1
                /\ pc' = "second"
       ELSE /\ i' = 0
            /\ pc' = "render"
            /\ UNCHANGED <<matchStatus, letterCounts>>
  /\ UNCHANGED <<target, guess, totalCells, targetWord, result>>
  /\ UNCHANGED <<gameVars, otherVars>>

\* Lines 658-689: return the row of cells.
Render ==
  /\ pc = "render"
  /\ result' = [kind |-> "row", status |-> matchStatus,
                cells |-> RenderRow(matchStatus, guess, totalCells)]
  /\ pc' = "done"
  /\ UNCHANGED <<target, guess, i, totalCells, targetWord, letterCounts, matchStatus>>
  /\ UNCHANGED <<gameVars, otherVars>>

\* The pairs of target and guess the repeated invocations are drawn from.
PureInputs ==
  ExamplePairs

\* A round in progress whose history holds the guess g for the word w:
\* what the component holds while its render calls renderGuessRow(g).
RoundInProgress(w, g) ==
  /\ currentPair = [word |-> w, pattern |-> ToLowerCase(w)]
  /\ availableWords = <<>>
  /\ flipped = TRUE
  /\ currentGuess = <<>>
  /\ guessHistory = <<g>>
  /\ attempt = 1
  /\ score = 0
  /\ gameOver = FALSE
  /\ playerName = ""
  /\ showNamePrompt = FALSE
  /\ leaderboard = <<>>
  /\ message = MsgNone
  /\ gameStarted = TRUE
  /\ countdown = 0
  /\ globalTimer = SessionTicks
  /\ hintAvailable = FALSE
  /\ nextRoundTimers = <<>>
  /\ hintTimer = "current"
  /\ tickClosure = [live |-> TRUE, score |-> 0, leaderboard |-> <<>>]
  /\ ttsInput = NoTts
  /\ shown = <<w>>
  /\ sinceFlip3s = FALSE

PureInit ==
  /\ \E in \in PureInputs :
       /\ target = in[1]
       /\ guess = in[2]
       /\ RoundInProgress(in[1], in[2])
  /\ pc = "enter"
  /\ i = 0
  /\ totalCells = 0
  /\ targetWord = <<>>
  /\ letterCounts = EmptyMap
  /\ matchStatus = <<>>
  /\ result = Pending
  /\ earlierCall = NoCall
  /\ progress = NoProgress
  /\ now = 0
  /\ dynamicGame = NotMounted

\* The component renders again and calls renderGuessRow once more, with
\* the same or another pair and guess; the call that just returned may be
\* the one kept for comparison.  The locals of the finished call are dead:
\* Enter declares them anew.
Again ==
  /\ pc = "done"
  /\ \E in \in PureInputs :
       /\ target' = in[1]
       /\ guess' = in[2]
       /\ currentPair' = [word |-> in[1], pattern |-> ToLowerCase(in[1])]
       /\ guessHistory' = <<in[2]>>
       /\ shown' = <<in[1]>>
  /\ earlierCall' \in
       {earlierCall,
        [kind |-> "call", target |-> target, guess |-> guess,
         status |-> result.status, cells |-> result.cells]}
  /\ pc' = "enter"
  /\ result' = Pending
  /\ UNCHANGED <<i, totalCells, targetWord, letterCounts, matchStatus>>
  /\ UNCHANGED <<availableWords, flipped, currentGuess, attempt, score,
                 gameOver, playerName, showNamePrompt, leaderboard, message,
                 gameStarted, countdown, globalTimer, hintAvailable,
                 nextRoundTimers, hintTimer, tickClosure, ttsInput,
                 sinceFlip3s>>
  /\ UNCHANGED <<progress, now, dynamicGame>>

Next ==
  \/ Enter
  \/ CountIter
  \/ ExactIter
  \/ SecondIter
  \/ Render

Spec == Init /\ [][Next]_vars

PureNext ==
  \/ Next
  \/ Again

PureSpec == PureInit /\ [][PureNext]_vars

TypeOK ==
  /\ pc \in {"enter", "count", "exact", "second", "render", "done"}
  /\ i \in 0..(MaxOf(Len(target), Len(guess)))
  /\ result.kind \in {"pending", "null", "row"}
  /\ \A k \in 1..Len(matchStatus) :
       matchStatus[k] \in {"none", "correct", "wrong-position", "incorrect"}
  /\ DOMAIN letterCounts \subseteq LowerLetters
  /\ \A c \in DOMAIN letterCounts : letterCounts[c] \in Nat
  /\ pc = "done" => result = Classify(target, guess)

\* ------------------------------------------------------------------------
\* The flashcard game: the pure pieces of the handlers
\* ------------------------------------------------------------------------
Range(q) ==
  {q[k] : k \in 1..Len(q)}

\* shuffleArray([...wordPairs]): any order of the pool.
Shuffles ==
  {q \in [1..Len(wordPairs) -> Range(wordPairs)] : Range(q) = Range(wordPairs)}

\* adjustDisplayTime(selectedDisplayTime, word)
adjustDisplayTime(w) ==
  DisplayTicks

\* input: `Spell the word.... "${word}".`
speakWord(w) ==
  [template |-> "Spell the word.... ", text |-> w]

\* input: `The word is... "${pattern}!".`
speakPattern(pattern) ==
  [template |-> "The word is... ", text |-> pattern]

\* Math.min(...leaderboard.map((e) => e.score)), for a non-empty board.
MinScore(lb) ==
  CHOOSE m \in {lb[k].score : k \in 1..Len(lb)} :
    \A k \in 1..Len(lb) : m <= lb[k].score

\* checkAndPromptHighScore: const qualifies, from the leaderboard and score
\* of the render the caller was created in.
Qualifies(lb, sc) ==
  \/ Len(lb) < LeaderboardSize
  \/ Len(lb) > 0 /\ sc > MinScore(lb)

\* [...leaderboard, newEntry].sort((a, b) => b.score - a.score): the sort
\* is stable, so the new entry goes behind the entries that score as much.
SortedWith(lb, e) ==
  LET before == SelectSeq(lb, LAMBDA x : x.score >= e.score)
      after == SelectSeq(lb, LAMBDA x : x.score < e.score)
  IN  before \o <<e>> \o after

\* The entries of the board that were added by the player.
Entered(lb) ==
  Cardinality({k \in 1..Len(lb) : lb[k].name = "KID"})

\* .slice(0, 5)
Slice5(q) ==
  IF Len(q) <= LeaderboardSize THEN q ELSE SubSeq(q, 1, LeaderboardSize)

\* currentGuess.toLowerCase() === currentPair.word.toLowerCase()
isCorrect(g, w) ==
  ToLowerCase(g) = ToLowerCase(w)

\* Math.max(Math.floor(baseScore * (1 - 0.2 * attempt)), 0); for attempt in
\* 0..2 the floating-point product is the integer 25 * L * (10 - 2k) / 10.
roundScore(w, att) ==
  MaxOf((BaseScorePerLetter * Len(w) * (10 - 2 * att)) \div 10, 0)

\* The cleanup of the hint effect: clearTimeout(timer).
KeepTimeout(t) ==
  IF t = "current" THEN "stale" ELSE t

ClearTimeout(t) ==
  "none"

\* What a callback created in this render captures.
Closure ==
  [availableWords |-> availableWords, score |-> score,
   leaderboard |-> leaderboard]

\* ------------------------------------------------------------------------
\* The flashcard game: effects and handlers
\* ------------------------------------------------------------------------
\* An interval that outlives the game-over state (no cleanup).
GlobalTimerEffectNoCleanup ==
  tickClosure' =
    IF tickClosure.live
      THEN tickClosure
      ELSE IF gameStarted' /\ ~gameOver'
             THEN [live |-> TRUE, score |-> score', leaderboard |-> leaderboard']
             ELSE NoClosure

\* useEffect(..., [gameStarted, gameOver]) (401-417): when either changed,
\* the old interval is cleared and, while the game runs, a new one is set
\* whose callback captures the score and leaderboard of that render.
GlobalTimerEffect ==
  tickClosure' =
    IF gameStarted' = gameStarted /\ gameOver' = gameOver
      THEN tickClosure
      ELSE IF gameStarted' /\ ~gameOver'
             THEN [live |-> TRUE, score |-> score', leaderboard |-> leaderboard']
             ELSE NoClosure

\* useEffect(..., [flipped]) (420-427): when flipped changed, the cleanup
\* clears the old timer and, on the guessing side, a 3000 ms timer is set.
HintEffect ==
  /\ hintTimer' =
       IF flipped' = flipped
         THEN hintTimer
         ELSE IF flipped' THEN "current" ELSE ClearTimeout(hintTimer)
  /\ sinceFlip3s' = IF flipped' = flipped THEN sinceFlip3s ELSE FALSE

\* A keyboard that stays enabled after the third guess.
InputEnabledNoAttemptLimit ==
  /\ gameStarted
  /\ ~gameOver
  /\ flipped
  /\ currentPair # NoPair

\* handleKeyPress line 432 and the keyboard's render condition (877); the
\* keyboard sits on the back of the card (851), shown while flipped.
InputEnabled ==
  /\ gameStarted
  /\ ~gameOver
  /\ flipped
  /\ attempt < MAX_ATTEMPTS
  /\ currentPair # NoPair

\* handleStartGame (713-743), then the gameStarted effect (370-377), which
\* calls startNewRound() of the render that sees the shuffled list.
handleStartGame ==
  /\ ~gameStarted
  /\ \E shuffledWords \in Shuffles :
       /\ currentPair' = shuffledWords[1]
       /\ availableWords' = Tail(shuffledWords)
       /\ countdown' = adjustDisplayTime(shuffledWords[1].word)
       /\ shown' = <<shuffledWords[1].word>>
  /\ flipped' = FALSE
  /\ currentGuess' = <<>>
  /\ guessHistory' = <<>>
  /\ attempt' = 0
  /\ score' = 0
  /\ gameOver' = FALSE
  /\ playerName' = ""
  /\ showNamePrompt' = FALSE
  /\ message' = MsgNone
  /\ gameStarted' = TRUE
  /\ globalTimer' = SessionTicks
  /\ hintAvailable' = FALSE
  /\ UNCHANGED <<leaderboard, nextRoundTimers>>
  /\ HintEffect
  /\ GlobalTimerEffect
  /\ ttsInput' = NoTts
  /\ UNCHANGED <<scorerVars, otherVars>>

\* The countdown interval (380-398).  A card shows its front for at least
\* four seconds and a next-round timer fires 2.6 s after it was set, so
\* the tick that flips the card finds no next-round timer pending.
CountdownTick ==
  /\ gameStarted
  /\ ~flipped
  /\ ttsInput' = IF countdown = SpeakAt /\ currentPair # NoPair
                   THEN speakWord(currentPair.word)
                   ELSE NoTts
  /\ IF countdown <= 1
       THEN /\ nextRoundTimers = <<>>
            /\ flipped' = TRUE
            /\ countdown' = 0
       ELSE /\ flipped' = FALSE
            /\ countdown' = countdown - 1
  /\ HintEffect
  /\ UNCHANGED <<currentPair, availableWords, currentGuess, guessHistory,
                 attempt, score, gameOver, playerName, showNamePrompt,
                 leaderboard, message, gameStarted, globalTimer,
                 hintAvailable, nextRoundTimers, tickClosure, shown>>
  /\ UNCHANGED <<scorerVars, otherVars>>

\* The global timer interval (404-415).
GlobalTick ==
  /\ tickClosure.live
  /\ IF globalTimer <= 1
       THEN /\ message' = MsgTimeUp
            /\ gameOver' = TRUE
            /\ showNamePrompt' =
                 (showNamePrompt
                    \/ Qualifies(tickClosure.leaderboard, tickClosure.score))
            /\ globalTimer' = 0
       ELSE /\ globalTimer' = globalTimer - 1
            /\ UNCHANGED <<message, gameOver, showNamePrompt>>
  /\ UNCHANGED <<gameStarted, score, leaderboard>>
  /\ GlobalTimerEffect
  /\ UNCHANGED <<currentPair, availableWords, flipped, currentGuess,
                 guessHistory, attempt, playerName, countdown, hintAvailable,
                 nextRoundTimers, hintTimer, shown, sinceFlip3s>>
  /\ ttsInput' = NoTts
  /\ UNCHANGED <<scorerVars, otherVars>>

\* The hint timer fires (422-424).
HintTimeout ==
  /\ hintTimer # "none"
  /\ hintAvailable' = TRUE
  /\ sinceFlip3s' = (hintTimer = "current")
  /\ hintTimer' = "none"
  /\ UNCHANGED <<currentPair, availableWords, flipped, currentGuess,
                 guessHistory, attempt, score, gameOver, playerName,
                 showNamePrompt, leaderboard, message, gameStarted, countdown,
                 globalTimer, nextRoundTimers, tickClosure, shown>>
  /\ ttsInput' = NoTts
  /\ UNCHANGED <<scorerVars, otherVars>>

\* handleKeyPress with a letter key (433-437), handleLetterClick (564-569).
handleLetterClick(letter) ==
  /\ InputEnabled
  /\ Len(currentGuess) < Len(currentPair.word)
  /\ currentGuess' = Append(currentGuess, letter)
  /\ UNCHANGED <<currentPair, availableWords, flipped, guessHistory, attempt,
                 score, gameOver, playerName, showNamePrompt, leaderboard,
                 message, gameStarted, countdown, globalTimer, hintAvailable,
                 nextRoundTimers, hintTimer, tickClosure, shown,
                 sinceFlip3s>>
  /\ ttsInput' = NoTts
  /\ UNCHANGED <<scorerVars, otherVars>>

\* handleBackspace (571-573): currentGuess.slice(0, -1)
handleBackspace ==
  /\ InputEnabled
  /\ Len(currentGuess) > 0
  /\ currentGuess' = SubSeq(currentGuess, 1, Len(currentGuess) - 1)
  /\ UNCHANGED <<currentPair, availableWords, flipped, guessHistory, attempt,
                 score, gameOver, playerName, showNamePrompt, leaderboard,
                 message, gameStarted, countdown, globalTimer, hintAvailable,
                 nextRoundTimers, hintTimer, tickClosure, shown,
                 sinceFlip3s>>
  /\ ttsInput' = NoTts
  /\ UNCHANGED <<scorerVars, otherVars>>

\* handleGuessSubmit (478-561), reached with a non-empty guess.  The two
\* chained timeouts (600 ms, then 2000 ms) are one pending timer that
\* holds the startNewRound of the render the handler belongs to.
handleGuessSubmit ==
  /\ InputEnabled
  /\ Len(currentGuess) > 0
  /\ LET newAttempt == attempt + 1
     IN  IF isCorrect(currentGuess, currentPair.word)
           THEN /\ score' = score + roundScore(currentPair.word, attempt)
                /\ nextRoundTimers' = Append(nextRoundTimers, Closure)
                /\ UNCHANGED <<hintAvailable, message>>
           ELSE /\ hintAvailable' =
                     (hintAvailable \/ (newAttempt = 1 /\ ~hintAvailable))
                /\ IF newAttempt >= MAX_ATTEMPTS
                     THEN /\ message' = MsgReveal(currentPair.word)
                          /\ nextRoundTimers' = Append(nextRoundTimers, Closure)
                     ELSE UNCHANGED <<message, nextRoundTimers>>
                /\ UNCHANGED score
  /\ guessHistory' = Append(guessHistory, currentGuess)
  /\ attempt' = attempt + 1
  /\ currentGuess' = <<>>
  /\ UNCHANGED <<currentPair, availableWords, flipped, gameOver, playerName,
                 showNamePrompt, leaderboard, gameStarted, countdown,
                 globalTimer, hintTimer, tickClosure, shown,
                 sinceFlip3s>>
  /\ ttsInput' = NoTts
  /\ UNCHANGED <<scorerVars, otherVars>>

\* onHint={() => speakPattern(currentPair?.word || "")} (886).
onHint(pair) ==
  speakPattern(pair.word)

\* The Hint key of the keyboard: disabled || !hintAvailable (137-223).
PressHint ==
  /\ InputEnabled
  /\ hintAvailable
  /\ ttsInput' = onHint(currentPair)
  /\ UNCHANGED <<currentPair, availableWords, flipped, currentGuess,
                 guessHistory, attempt, score, gameOver, playerName,
                 showNamePrompt, leaderboard, message, gameStarted, countdown,
                 globalTimer, hintAvailable, nextRoundTimers, hintTimer,
                 tickClosure, shown, sinceFlip3s>>
  /\ UNCHANGED <<scorerVars, otherVars>>

\* A next-round timer fires: startNewRound (455-476) of the render it was
\* set in, with that render's availableWords, score and leaderboard.
NextRoundTimeout ==
  /\ nextRoundTimers # <<>>
  /\ LET c == Head(nextRoundTimers)
     IN  IF c.availableWords = <<>>
           THEN /\ message' = MsgCompleted
                /\ gameOver' = TRUE
                /\ showNamePrompt' =
                     (showNamePrompt \/ Qualifies(c.leaderboard, c.score))
                /\ UNCHANGED <<currentPair, availableWords, flipped, countdown,
                               currentGuess, guessHistory, attempt, shown>>
           ELSE /\ currentPair' = c.availableWords[1]
                /\ availableWords' = Tail(c.availableWords)
                /\ flipped' = FALSE
                /\ countdown' = adjustDisplayTime(c.availableWords[1].word)
                /\ currentGuess' = <<>>
                /\ guessHistory' = <<>>
                /\ attempt' = 0
                /\ message' = MsgNone
                /\ shown' = IF gameStarted /\ ~gameOver
                                 /\ c.availableWords[1] # currentPair
                              THEN Append(shown, c.availableWords[1].word)
                              ELSE shown
                /\ UNCHANGED <<gameOver, showNamePrompt>>
  /\ hintAvailable' = FALSE
  /\ nextRoundTimers' = Tail(nextRoundTimers)
  /\ UNCHANGED <<gameStarted, score, leaderboard>>
  /\ HintEffect
  /\ GlobalTimerEffect
  /\ UNCHANGED <<playerName, globalTimer>>
  /\ ttsInput' = NoTts
  /\ UNCHANGED <<scorerVars, otherVars>>

\* The name input of the high-score prompt.
TypeName ==
  /\ gameStarted
  /\ gameOver
  /\ showNamePrompt
  /\ playerName = ""
  /\ playerName' = "KID"
  /\ UNCHANGED <<currentPair, availableWords, flipped, currentGuess,
                 guessHistory, attempt, score, gameOver, showNamePrompt,
                 leaderboard, message, gameStarted, countdown, globalTimer,
                 hintAvailable, nextRoundTimers, hintTimer, tickClosure, shown, sinceFlip3s>>
  /\ ttsInput' = NoTts
  /\ UNCHANGED <<scorerVars, otherVars>>

\* handleSubmitHighScore (587-597), with a non-empty name.
handleSubmitHighScore ==
  /\ gameStarted
  /\ gameOver
  /\ showNamePrompt
  /\ playerName # ""
  /\ Entered(leaderboard) < MaxEntries
  /\ leaderboard' =
       Slice5(SortedWith(leaderboard, [name |-> playerName, score |-> score]))
  /\ showNamePrompt' = FALSE
  /\ UNCHANGED <<currentPair, availableWords, flipped, currentGuess,
                 guessHistory, attempt, score, gameOver, playerName, message,
                 gameStarted, countdown, globalTimer, hintAvailable,
                 nextRoundTimers, hintTimer, tickClosure, shown,
                 sinceFlip3s>>
  /\ ttsInput' = NoTts
  /\ UNCHANGED <<scorerVars, otherVars>>

\* resetGame (600-612), the Restart button of the game-over block.
resetGame ==
  /\ gameStarted
  /\ gameOver
  /\ score' = 0
  /\ gameOver' = FALSE
  /\ playerName' = ""
  /\ showNamePrompt' = FALSE
  /\ flipped' = FALSE
  /\ currentGuess' = <<>>
  /\ guessHistory' = <<>>
  /\ attempt' = 0
  /\ message' = MsgNone
  /\ gameStarted' = FALSE
  /\ UNCHANGED leaderboard
  /\ HintEffect
  /\ GlobalTimerEffect
  /\ UNCHANGED <<currentPair, availableWords, countdown, globalTimer,
                 hintAvailable, nextRoundTimers, shown>>
  /\ ttsInput' = NoTts
  /\ UNCHANGED <<scorerVars, otherVars>>

\* The scorer is at rest while the game runs.
ScorerIdle ==
  /\ target = <<>>
  /\ guess = <<>>
  /\ pc = "done"
  /\ i = 0
  /\ totalCells = 0
  /\ targetWord = <<>>
  /\ letterCounts = EmptyMap
  /\ matchStatus = <<>>
  /\ result = NullResult

GameInit ==
  /\ ScorerIdle
  /\ OthersIdle
  /\ \E lb \in StoredLeaderboards : Mounted(lb)

GameNext ==
  \/ handleStartGame
  \/ CountdownTick
  \/ GlobalTick
  \/ HintTimeout
  \/ \E letter \in Keys : handleLetterClick(letter)
  \/ handleBackspace
  \/ handleGuessSubmit
  \/ PressHint
  \/ NextRoundTimeout
  \/ TypeName
  \/ handleSubmitHighScore
  \/ resetGame

\* A timer that was set fires: setTimeout callbacks are never cancelled
\* (531-541, 551-557).
GameFairSpec == GameInit /\ [][GameNext]_vars /\ WF_vars(NextRoundTimeout)

GameSpec == GameInit /\ [][GameNext]_vars

\* The running interval of the global timer fires every second (404-415).
GameTickFairSpec == GameInit /\ [][GameNext]_vars /\ WF_vars(GlobalTick)

\* ------------------------------------------------------------------------
\* Vocabulary of the properties (stated on the inputs, not on the loops)
\* ------------------------------------------------------------------------
\* Number of occurrences of the character c in the word w.
Occ(c, w) ==
  Cardinality({k \in 1..Len(w) : w[k] = c})

\* Position k (1-based) of the guess holds the letter c, ignoring case.
Holds(k, c) ==
  k <= Len(guess) /\ LowerOf[guess[k]] = c

\* Target and guess both have a character at k, equal ignoring case.
IsExact(k) ==
  /\ k <= Len(target)
  /\ k <= Len(guess)
  /\ LowerOf[target[k]] = LowerOf[guess[k]]

\* Occurrences of c in the target that are not exactly matched.
Budget(c) ==
  Occ(c, ToLowerCase(target)) - Cardinality({k \in 1..Len(guess) : IsExact(k) /\ Holds(k, c)})

\* Positions left of k that hold c and are not exact matches.
EarlierClaims(k, c) ==
  Cardinality({j \in 1..(k - 1) : Holds(j, c) /\ ~IsExact(j)})

Returned == pc = "done" /\ result.kind = "row"

ToUpperCase(w) ==
  [k \in 1..Len(w) |-> UpperOf[w[k]]]

\* ------------------------------------------------------------------------
\* C1: for every letter c, the guess positions holding c that are
\* classified correct or wrong-position never outnumber the occurrences of
\* c in the target (case-insensitively), at every point of the computation.
\* ------------------------------------------------------------------------
C1_CreditWithinOccurrences ==
  \A c \in LowerLetters :
    Cardinality({k \in 1..Len(matchStatus) :
                   Holds(k, c) /\ matchStatus[k] \in {"correct", "wrong-position"}})
      <= Occ(c, ToLowerCase(target))

\* A result where a letter is credited once and refused once.
C1_Witness ==
  /\ Returned
  /\ \E c \in LowerLetters : \E k1, k2 \in 1..Len(guess) :
       /\ Holds(k1, c) /\ result.status[k1] = "wrong-position"
       /\ Holds(k2, c) /\ result.status[k2] = "incorrect"
       /\ Occ(c, ToLowerCase(target)) = 1

\* ------------------------------------------------------------------------
\* C2: once the exact-match loop has finished, position k is correct iff
\* target and guess both have a character at k and they are equal ignoring
\* case; before that, and always, a correct position is such a position.
\* ------------------------------------------------------------------------
C2_CorrectIffExact ==
  /\ \A k \in 1..Len(matchStatus) : matchStatus[k] = "correct" => IsExact(k)
  /\ pc \in {"second", "render"} \/ Returned =>
       \A k \in 1..Len(matchStatus) : matchStatus[k] = "correct" <=> IsExact(k)
  /\ Returned => result.status = matchStatus

\* A result with an exact match across cases next to a position past the
\* end of the target.
C2_Witness ==
  /\ Returned
  /\ Len(guess) > Len(target)
  /\ \E k \in 1..Len(target) :
       /\ result.status[k] = "correct"
       /\ guess[k] # target[k]
  /\ \E k \in 1..Len(target) : result.status[k] # "correct"

\* ------------------------------------------------------------------------
\* C3: in the result, a position k that holds a letter c and is not correct
\* is wrong-position iff the non-correct positions left of it holding c are
\* fewer than the occurrences of c in the target minus the correct
\* positions holding c; otherwise it is incorrect (absent).
\* ------------------------------------------------------------------------
C3_BudgetLeftToRight ==
  Returned =>
    \A k \in 1..Len(guess) :
      result.status[k] # "correct" =>
        LET c       == LowerOf[guess[k]]
            earlier == Cardinality({j \in 1..(k - 1) :
                                      Holds(j, c) /\ result.status[j] # "correct"})
            exact   == Cardinality({j \in 1..Len(guess) :
                                      Holds(j, c) /\ result.status[j] = "correct"})
        IN  /\ result.status[k] \in {"wrong-position", "incorrect"}
            /\ result.status[k] = "wrong-position"
                 <=> earlier < Occ(c, ToLowerCase(target)) - exact

\* The budget of a letter runs out between two wrong positions holding it.
C3_Witness ==
  /\ Returned
  /\ \E k1, k2 \in 1..Len(guess) :
       /\ k1 < k2
       /\ LowerOf[guess[k1]] = LowerOf[guess[k2]]
       /\ result.status[k1] = "wrong-position"
       /\ result.status[k2] = "incorrect"
       /\ \E k3 \in 1..Len(guess) :
            result.status[k3] = "correct" /\ LowerOf[guess[k3]] = LowerOf[guess[k1]]

\* ------------------------------------------------------------------------
\* C4: no position is classified by the second pass before every exact
\* match is marked; a wrong position never uses a target occurrence that is
\* exactly matched, wherever that match lies; APPLE/PPLEA and AB/BB give
\* the stated rows.
\* ------------------------------------------------------------------------
C4_ExactBeforePresent ==
  /\ (\E k \in 1..Len(matchStatus) : matchStatus[k] \in {"wrong-position", "incorrect"})
       => /\ pc \in {"second", "render", "done"}
          /\ \A k \in 1..Len(matchStatus) : IsExact(k) => matchStatus[k] = "correct"
  /\ \A c \in LowerLetters :
       Cardinality({k \in 1..Len(matchStatus) :
                      Holds(k, c) /\ matchStatus[k] = "wrong-position"}) <= Budget(c)
  /\ ( /\ pc = "done"
       /\ target = <<"A", "P", "P", "L", "E">>
       /\ guess = <<"P", "P", "L", "E", "A">> )
       => result.status = <<"wrong-position", "correct", "wrong-position",
                            "wrong-position", "wrong-position">>
  /\ (pc = "done" /\ target = <<"A", "B">> /\ guess = <<"B", "B">>)
       => result.status = <<"incorrect", "correct">>

\* A wrong position is refused a letter whose only copy is matched to its right.
C4_Witness ==
  /\ Returned
  /\ \E k1, k2 \in 1..Len(guess) :
       /\ k1 < k2
       /\ LowerOf[guess[k1]] = LowerOf[guess[k2]]
       /\ result.status[k1] = "incorrect"
       /\ result.status[k2] = "correct"
       /\ Occ(LowerOf[guess[k1]], ToLowerCase(target)) = 1

C6_LengthAndRange ==
  Returned =>
    /\ Len(result.status) = MaxOf(Len(target), Len(guess))
    /\ Len(result.cells) = MaxOf(Len(target), Len(guess))
    /\ \A k \in 1..Len(result.status) :
         result.status[k] \in {"correct", "wrong-position", "incorrect"}

\* A guess longer than its target, scored over the length of the guess.
C6_Witness ==
  /\ Returned
  /\ Len(guess) > Len(target)
  /\ Len(result.status) = Len(guess)
  /\ \A k \in 1..Len(result.status) : result.status[k] # "none"

\* ------------------------------------------------------------------------
\* C7: a position past the end of a shorter guess is never correct or
\* wrong-position, ends incorrect and is rendered with the missing marker
\* (red, no letter), unlike an incorrect letter (gray); the second pass
\* leaves the letter budget alone at such a position.
\* ------------------------------------------------------------------------
C7_MissingPositions ==
  /\ [](\A k \in (Len(guess) + 1)..Len(matchStatus) :
          matchStatus[k] \in {"none", "incorrect"})
  /\ [](Returned =>
          /\ \A k \in (Len(guess) + 1)..Len(target) :
               /\ result.status[k] = "incorrect"
               /\ result.cells[k] = [cls |-> "bg-red-500", text |-> EmptyStr]
          /\ \A k \in 1..Len(guess) : result.cells[k].cls # "bg-red-500")
  /\ [][(pc = "second" /\ i >= Len(guess)) => letterCounts' = letterCounts]_vars

\* A shorter guess whose missing position faces a target letter that still
\* has budget.
C7_Witness ==
  /\ Returned
  /\ Len(guess) < Len(target)
  /\ Len(guess) > 0
  /\ \E k \in (Len(guess) + 1)..Len(target) :
       /\ result.cells[k].cls = "bg-red-500"
       /\ MapPositive(letterCounts, LowerOf[target[k]])
  /\ \E k \in 1..Len(guess) : result.cells[k].cls = "bg-gray-400"

\* ------------------------------------------------------------------------
\* C8: a non-empty target scored against itself is correct at every
\* position.
\* ------------------------------------------------------------------------
C8_SelfAllCorrect ==
  (pc = "done" /\ Len(target) > 0 /\ guess = target) =>
    /\ result.kind = "row"
    /\ Len(result.status) = Len(target)
    /\ \A k \in 1..Len(target) : result.status[k] = "correct"

\* A mixed-case target with a repeated letter, scored against itself.
C8_Witness ==
  /\ Returned
  /\ guess = target
  /\ Len(target) = MaxTargetLen
  /\ \E k1, k2 \in 1..Len(target) :
       /\ k1 # k2
       /\ LowerOf[target[k1]] = LowerOf[target[k2]]
       /\ target[k1] # target[k2]
  /\ \A k \in 1..Len(target) : result.status[k] = "correct"

\* ------------------------------------------------------------------------
\* C9: the result is the one of the lower-cased inputs and of the
\* upper-cased inputs, and of either input alone changed in case; so any
\* two inputs that differ only in case get the same classification.
\* ------------------------------------------------------------------------
C9_CaseInsensitive ==
  pc = "done" =>
    /\ result = Classify(ToLowerCase(target), ToLowerCase(guess))
    /\ result = Classify(ToUpperCase(target), ToUpperCase(guess))
    /\ result = Classify(ToUpperCase(target), guess)
    /\ result = Classify(ToLowerCase(target), guess)
    /\ result.status = Classify(target, ToLowerCase(guess)).status
    /\ result.status = Classify(target, ToUpperCase(guess)).status

\* Target and guess in opposite cases, with all three classes in the row.
C9_Witness ==
  /\ Returned
  /\ \A k \in 1..Len(target) : target[k] \in UpperLetters
  /\ \A k \in 1..Len(guess) : guess[k] \in LowerLetters
  /\ \E k \in 1..Len(guess) : result.status[k] = "correct"
  /\ \E k \in 1..Len(guess) : result.status[k] = "wrong-position"
  /\ \E k \in 1..Len(guess) : result.status[k] = "incorrect"

\* ------------------------------------------------------------------------
\* C10 as stated: every invocation, whatever the target and the guess,
\* returns a classification.
\* ------------------------------------------------------------------------
C10_AlwaysClassifies ==
  pc = "done" => result.kind = "row"

\* C10 as amended: the invocation never gets stuck before it returns; it
\* returns no row (null) exactly when the target is empty or missing, and
\* for a non-empty target, whatever the guess, it returns a classification
\* of every position.
C10_TotalOnNonEmptyTarget ==
  /\ pc # "done" => ENABLED Next
  /\ pc # "done" => result.kind = "pending"
  /\ pc = "done" =>
       /\ result.kind \in {"null", "row"}
       /\ result.kind = "null" <=> Len(target) = 0
       /\ result.kind = "row" =>
            /\ Len(result.status) = MaxOf(Len(target), Len(guess))
            /\ \A k \in 1..Len(result.status) : result.status[k] # "none"

\* An empty guess scored against a non-empty target.
C10_Witness ==
  /\ Returned
  /\ Len(guess) = 0
  /\ Len(target) > 0
  /\ \A k \in 1..Len(target) : result.status[k] = "incorrect"

\* ------------------------------------------------------------------------
\* C12: target ERROR scored against guess ROAR gives five entries: wrong
\* position, wrong position, incorrect, wrong position, and an incorrect
\* fifth entry rendered as the missing marker (red, no letter).
\* ------------------------------------------------------------------------
C12_ErrorRoar ==
  ( /\ pc = "done"
    /\ target = <<"E", "R", "R", "O", "R">>
    /\ guess = <<"R", "O", "A", "R">> )
    => /\ result.kind = "row"
       /\ result.status = <<"wrong-position", "wrong-position", "incorrect",
                            "wrong-position", "incorrect">>
       /\ result.cells[3] = [cls |-> "bg-gray-400", text |-> "A"]
       /\ result.cells[5] = [cls |-> "bg-red-500", text |-> EmptyStr]

\* ERROR/ROAR has been scored: both R of the guess are credited.
C12_Witness ==
  /\ Returned
  /\ target = <<"E", "R", "R", "O", "R">>
  /\ guess = <<"R", "O", "A", "R">>
  /\ result.status[1] = "wrong-position"
  /\ result.status[4] = "wrong-position"
  /\ Len(result.status) = 5

\* ------------------------------------------------------------------------
\* The challenge tracker (src/unnamed/part_006)
\* ------------------------------------------------------------------------
\* Days of a week (Math.ceil(targetDay / 7), Array.from({ length: 7 })).
WeekLength == 7

\* The last day of the challenge (progress.current_day >= 28).
ChallengeDays == 28

\* The days advanceDay is followed to, and the calls of completeTask.
MaxDay == 8
MaxCompletions == 2

\* The task templates: a daily task, a weekly task of weeks 1 and 2, and a
\* weekly task of week 2.
taskTemplates ==
  << [id |-> "d1", type |-> "daily", occurrences |-> 1..ChallengeDays],
     [id |-> "w1", type |-> "weekly", occurrences |-> {1, 2}],
     [id |-> "w2", type |-> "weekly", occurrences |-> {2}] >>

TaskIds == {taskTemplates[k].id : k \in 1..Len(taskTemplates)}

\* The optional notes argument of completeTask.
Notes == {Undefined, "note"}

\* A Date (the clock value it was created at), and a missing one.
DateOf(t) == <<t>>
NoDate == <<>>

\* task_completions: {}
NoCompletions == [k \in {} |-> 0]

\* startChallenge (3-13): day 1, nothing completed.
startChallenge ==
  [current_day |-> 1, task_completions |-> NoCompletions]

\* progress.task_completions[day]?.[id]?.completed
IsCompleted(p, day, id) ==
  /\ <<day, id>> \in DOMAIN p.task_completions
  /\ p.task_completions[<<day, id>>].completed

\* const targetDay = day || progress.current_day   (0: no day given)
TargetDay(p, day) ==
  IF day # 0 THEN day ELSE p.current_day

\* Math.ceil(targetDay / 7)
CurrentWeek(targetDay) ==
  (targetDay + WeekLength - 1) \div WeekLength

\* (currentWeek - 1) * 7 + 1
WeekStartDay(currentWeek) ==
  (currentWeek - 1) * WeekLength + 1

\* Array.from({ length: 7 }, (_, i) => weekStartDay + i)
WeekDays(weekStartDay) ==
  [k \in 1..WeekLength |-> weekStartDay + k - 1]

\* Array.from({ length: targetDay }, (_, i) => i + 1)
DaysUpTo(targetDay) ==
  [k \in 1..targetDay |-> k]

\* weekDay <= targetDay   ("Only check up to current day")
AnyDayOfWeek(weekDay, targetDay) ==
  TRUE

UpToTarget(weekDay, targetDay) ==
  weekDay <= targetDay

\* Array.prototype.find: the first element of days among those the
\* callback holds for (hits), 0 if there is none.
Find(days, hits) ==
  IF \E k \in 1..Len(days) : days[k] \in hits
    THEN days[CHOOSE k \in 1..Len(days) :
                /\ days[k] \in hits
                /\ \A j \in 1..(k - 1) : days[j] \notin hits]
    ELSE 0

\* completionDay ? task_completions[completionDay][id].<field> : undefined
CompletedAtOf(p, completionDay, id) ==
  IF completionDay # 0
    THEN p.task_completions[<<completionDay, id>>].completed_at
    ELSE NoDate

NotesOf(p, completionDay, id) ==
  IF completionDay # 0
    THEN p.task_completions[<<completionDay, id>>].notes
    ELSE Undefined

\* What getUserDayTasks adds to a template.
Report(template, completed, completedAt, notes) ==
  [id |-> template.id, type |-> template.type, completed |-> completed,
   completedAt |-> completedAt, notes |-> notes]

\* Lines 27-35: the daily tasks of the target day.
dailyTasks(p, templates, targetDay) ==
  LET chosen == SelectSeq(templates, LAMBDA t :
                  t.type = "daily" /\ targetDay \in t.occurrences)
      has(t) == <<targetDay, t.id>> \in DOMAIN p.task_completions
  IN  [k \in 1..Len(chosen) |->
         Report(chosen[k],
                IsCompleted(p, targetDay, chosen[k].id),
                IF has(chosen[k])
                  THEN p.task_completions[<<targetDay, chosen[k].id>>].completed_at
                  ELSE NoDate,
                IF has(chosen[k])
                  THEN p.task_completions[<<targetDay, chosen[k].id>>].notes
                  ELSE Undefined)]

\* Lines 38-62: the weekly tasks of the target day's week.
weeklyTasks(p, templates, targetDay) ==
  LET currentWeek == CurrentWeek(targetDay)
      weekStartDay == WeekStartDay(currentWeek)
      weekDays == WeekDays(weekStartDay)
      chosen == SelectSeq(templates, LAMBDA t :
                  t.type = "weekly" /\ currentWeek \in t.occurrences)
      done(t, weekDay) ==
        UpToTarget(weekDay, targetDay) /\ IsCompleted(p, weekDay, t.id)
      isCompletedThisWeek(t) ==
        \E k \in 1..Len(weekDays) : done(t, weekDays[k])
      completionDay(t) ==
        Find(weekDays, {weekDay \in Range(weekDays) : done(t, weekDay)})
      report(t) ==
        LET day == completionDay(t)
        IN  Report(t, isCompletedThisWeek(t),
                   CompletedAtOf(p, day, t.id), NotesOf(p, day, t.id))
  IN  [k \in 1..Len(chosen) |-> report(chosen[k])]

\* Lines 65-83: the monthly tasks.
monthlyTasks(p, templates, targetDay) ==
  LET chosen == SelectSeq(templates, LAMBDA t :
                  t.type = "monthly" /\ 1 \in t.occurrences)
      done(t, day) == IsCompleted(p, day, t.id)
      completionDay(t) ==
        Find(DaysUpTo(targetDay),
             {day \in Range(DaysUpTo(targetDay)) : done(t, day)})
  IN  [k \in 1..Len(chosen) |->
         Report(chosen[k],
                \E day \in 1..targetDay : done(chosen[k], day),
                CompletedAtOf(p, completionDay(chosen[k]), chosen[k].id),
                NotesOf(p, completionDay(chosen[k]), chosen[k].id))]

\* getUserDayTasks(progress, taskTemplates, day) (15-86).
getUserDayTasks(p, templates, day) ==
  IF p = NoProgress
    THEN <<>>
    ELSE LET targetDay == TargetDay(p, day)
         IN  dailyTasks(p, templates, targetDay)
               \o weeklyTasks(p, templates, targetDay)
               \o monthlyTasks(p, templates, targetDay)

\* A number returned by getCompletionRate: num / den.
Ratio(num, den) ==
  [num |-> num, den |-> den]

\* const currentDay = progress.current_day || 1
CurrentDayOr1(p) ==
  IF p.current_day # 0 THEN p.current_day ELSE 1

\* The loop of getCompletionRate (149-155) from day on: a task of the day
\* counts as completed when task_completions[day] holds it.
RECURSIVE CountTasks(_, _, _, _)
CountTasks(p, templates, day, acc) ==
  IF day <= CurrentDayOr1(p)
    THEN LET dayTasks == getUserDayTasks(p, templates, day)
         IN  CountTasks(p, templates, day + 1,
               [totalTasks     |-> acc.totalTasks + Len(dayTasks),
                completedTasks |->
                  acc.completedTasks
                    + Len(SelectSeq(dayTasks,
                                    LAMBDA task : IsCompleted(p, day, task.id)))])
    ELSE acc

\* getCompletionRate (138-158)
getCompletionRate(p, templates) ==
  IF p = NoProgress
    THEN Ratio(0, 1)
    ELSE LET n == CountTasks(p, templates, 1,
                             [totalTasks |-> 0, completedTasks |-> 0])
         IN  IF n.totalTasks = 0
               THEN Ratio(0, 1)
               ELSE Ratio(n.completedTasks, n.totalTasks)

\* { ...task_completions, [day]: { ...task_completions[day], [id]: entry } }
WithEntry(completions, day, id, entry) ==
  [k \in DOMAIN completions \cup {<<day, id>>} |->
     IF k = <<day, id>> THEN entry ELSE completions[k]]

\* const { [taskTemplateId]: _, ...remainingTasks } = dayCompletions
WithoutEntry(completions, day, id) ==
  [k \in DOMAIN completions \ {<<day, id>>} |-> completions[k]]

\* The caller starts the challenge (startChallenge, 3-13).
StartChallenge ==
  /\ progress = NoProgress
  /\ progress' = startChallenge
  /\ UNCHANGED <<now, earlierCall, dynamicGame>>
  /\ UNCHANGED <<scorerVars, gameVars>>

\* progress = completeTask(progress, taskTemplateId, notes) (88-109);
\* new Date() reads the clock, which has moved on since the last call.
completeTask(taskTemplateId, notes) ==
  /\ now < MaxCompletions
  /\ now' = now + 1
  /\ progress' =
       IF progress = NoProgress
         THEN startChallenge
         ELSE [progress EXCEPT !.task_completions =
                 WithEntry(@, progress.current_day, taskTemplateId,
                           [completed |-> TRUE,
                            completed_at |-> DateOf(now + 1),
                            notes |-> notes])]
  /\ UNCHANGED <<earlierCall, dynamicGame>>
  /\ UNCHANGED <<scorerVars, gameVars>>

\* progress = uncompleteTask(progress, taskTemplateId) (111-127), for a
\* task the day holds.
uncompleteTask(taskTemplateId) ==
  /\ progress # NoProgress
  /\ <<progress.current_day, taskTemplateId>> \in DOMAIN progress.task_completions
  /\ progress' = [progress EXCEPT !.task_completions =
                    WithoutEntry(@, progress.current_day, taskTemplateId)]
  /\ UNCHANGED <<now, earlierCall, dynamicGame>>
  /\ UNCHANGED <<scorerVars, gameVars>>

\* progress = advanceDay(progress) (129-136), followed up to MaxDay.
advanceDay ==
  /\ progress # NoProgress
  /\ progress.current_day < ChallengeDays
  /\ progress.current_day < MaxDay
  /\ progress' = [progress EXCEPT !.current_day = @ + 1]
  /\ UNCHANGED <<now, earlierCall, dynamicGame>>
  /\ UNCHANGED <<scorerVars, gameVars>>

ChallengeInit ==
  /\ ScorerIdle
  /\ \E lb \in StoredLeaderboards : Mounted(lb)
  /\ OthersIdle

ChallengeNext ==
  \/ StartChallenge
  \/ \E id \in TaskIds : \E notes \in Notes : completeTask(id, notes)
  \/ \E id \in TaskIds : uncompleteTask(id)
  \/ advanceDay

ChallengeSpec == ChallengeInit /\ [][ChallengeNext]_vars

\* ------------------------------------------------------------------------
\* The dynamic-difficulty variant of the game (part_004:1140-1527).  The
\* name prompt is left unanswered, so the leaderboard stays the one loaded
\* at mount; animations and sounds are not part of the state.
\* ------------------------------------------------------------------------
\* useState<number>(4): the target length of a freshly mounted component.
InitialTargetLength == 4
\* if (newCount === 4): correct guesses per step of difficulty.
SuccessesPerLevel == 4
\* setCountdown(5)
CountdownStart == 5
\* Math.max(100 - attempt * 30, 0)
FullRoundScore == 100
AttemptPenalty == 30
\* Correct guesses submitted in one run.
MaxSuccesses == 5

\* The letter keys pressed: onLetterClick(letter) hands over a letter of
\* 'ABC...Z' (1059-1070).
KeysDyn == {"A"}

\* import wordPairs from "./spelling-flash-card-words.json" (962); only
\* pair.word is read.  No word has the initial target length.
wordPairsDyn ==
  { <<"a", "a", "a">>, <<"a", "a", "a", "a", "a">> }

\* Math.abs
Abs(x) ==
  IF x < 0 THEN -x ELSE x

\* Math.min(...diffs) over wordPairs (1195-1198).
minDiff(len) ==
  CHOOSE d \in {Abs(Len(w) - len) : w \in wordPairsDyn} :
    \A w \in wordPairsDyn : d <= Abs(Len(w) - len)

\* availablePairs of startNewRound (1189-1202): the words of the target
\* length, or else the words of the closest length.
availablePairs(len) ==
  IF {w \in wordPairsDyn : Len(w) = len} # {}
    THEN {w \in wordPairsDyn : Len(w) = len}
    ELSE {w \in wordPairsDyn : Abs(Len(w) - len) = minDiff(len)}

\* The values of message in this variant ("", and the text of line 1295).
MsgNoneDyn == [text |-> "", word |-> <<>>, score |-> 0]
MsgGameOverDyn(w, sc) ==
  [text |-> "Game Over! The correct word was", word |-> w, score |-> sc]

\* The component after mount: the useState initial values (1142-1161), the
\* stored leaderboard (1179-1184) and the first startNewRound() (1173-1176),
\* which picked randomPair = w.
MountedDyn(w, lb) ==
  [currentWord         |-> w,
   flipped             |-> FALSE,
   countdown           |-> CountdownStart,
   currentGuess        |-> <<>>,
   guessHistory        |-> <<>>,
   attempt             |-> 0,
   score               |-> 0,
   gameOver            |-> FALSE,
   playerName          |-> "",
   showNamePrompt      |-> FALSE,
   leaderboard         |-> lb,
   message             |-> MsgNoneDyn,
   currentTargetLength |-> InitialTargetLength,
   successfulCount     |-> 0,
   timers              |-> <<>>,   \* pending timeout chains: the target length each captured
   started             |-> TRUE]   \* history: this step ran startNewRound()

\* The state setters of startNewRound (1203-1212) with randomPair = w.
startNewRoundDyn(d, w) ==
  [d EXCEPT !.currentWord = w,
            !.flipped = FALSE,
            !.countdown = CountdownStart,
            !.currentGuess = <<>>,
            !.guessHistory = <<>>,
            !.attempt = 0,
            !.message = MsgNoneDyn,
            !.started = TRUE]

\* Correct guesses submitted so far.
Successes(d) ==
  (d.currentTargetLength - InitialTargetLength) * SuccessesPerLevel
    + d.successfulCount

\* The keyboard's render condition (1462); the keyboard sits on the back
\* of the card, shown while flipped.
InputEnabledDyn ==
  /\ dynamicGame.flipped
  /\ ~dynamicGame.gameOver
  /\ dynamicGame.attempt < MAX_ATTEMPTS

\* The countdown interval (1216-1223) and the flip effect (1226-1231).  A
\* pending next-round timer (2.6 s) fires before a countdown started after
\* it was set (5 s) runs out.
CountdownTickDyn ==
  /\ ~dynamicGame.flipped
  /\ dynamicGame.countdown - 1 <= 0 => dynamicGame.timers = <<>>
  /\ dynamicGame' =
       [dynamicGame EXCEPT !.countdown = @ - 1,
                           !.flipped = (dynamicGame.countdown - 1 <= 0),
                           !.started = FALSE]
  /\ UNCHANGED <<scorerVars, gameVars, earlierCall, progress, now>>

\* handleLetterClick (1306-1310)
handleLetterClickDyn(letter) ==
  /\ InputEnabledDyn
  /\ dynamicGame' =
       [dynamicGame EXCEPT
          !.currentGuess =
             IF Len(@) < Len(dynamicGame.currentWord) THEN Append(@, letter) ELSE @,
          !.started = FALSE]
  /\ UNCHANGED <<scorerVars, gameVars, earlierCall, progress, now>>

\* handleBackspace (1312-1314); the key is disabled on an empty guess.
handleBackspaceDyn ==
  /\ InputEnabledDyn
  /\ Len(dynamicGame.currentGuess) > 0
  /\ dynamicGame' =
       [dynamicGame EXCEPT !.currentGuess = SubSeq(@, 1, Len(@) - 1),
                           !.started = FALSE]
  /\ UNCHANGED <<scorerVars, gameVars, earlierCall, progress, now>>

\* checkAndPromptHighScore (1317-1325)
checkAndPromptHighScoreDyn(d) ==
  IF Qualifies(d.leaderboard, d.score) THEN TRUE ELSE d.showNamePrompt

\* handleGuessSubmit (1234-1303); the Submit key is disabled on an empty
\* guess.  The two chained timeouts (600 ms, then 2000 ms) are one pending
\* timer; it calls the startNewRound of the render the handler belongs
\* to, which reads that render's currentTargetLength.
handleGuessSubmitDyn ==
  /\ InputEnabledDyn
  /\ Len(dynamicGame.currentGuess) > 0
  /\ dynamicGame.currentWord # <<>>
  /\ LET d          == dynamicGame
         newCount   == d.successfulCount + 1
         newAttempt == d.attempt + 1
     IN  IF ToLowerCase(d.currentGuess) = ToLowerCase(d.currentWord)
           THEN /\ Successes(d) < MaxSuccesses
                /\ dynamicGame' =
                     [d EXCEPT
                        !.score = @ + MaxOf(FullRoundScore - d.attempt * AttemptPenalty, 0),
                        !.guessHistory = Append(@, d.currentGuess),
                        !.successfulCount =
                           IF newCount = SuccessesPerLevel THEN 0 ELSE newCount,
                        !.currentTargetLength =
                           IF newCount = SuccessesPerLevel THEN @ + 1 ELSE @,
                        !.timers = Append(@, d.currentTargetLength),
                        !.currentGuess = <<>>,
                        !.started = FALSE]
           ELSE dynamicGame' =
                  [d EXCEPT
                     !.guessHistory = Append(@, d.currentGuess),
                     !.attempt = newAttempt,
                     !.message =
                        IF newAttempt >= MAX_ATTEMPTS
                          THEN MsgGameOverDyn(d.currentWord, d.score) ELSE @,
                     !.gameOver = IF newAttempt >= MAX_ATTEMPTS THEN TRUE ELSE @,
                     !.showNamePrompt =
                        IF newAttempt >= MAX_ATTEMPTS
                          THEN checkAndPromptHighScoreDyn(d) ELSE @,
                     !.currentGuess = <<>>,
                     !.started = FALSE]
  /\ UNCHANGED <<scorerVars, gameVars, earlierCall, progress, now>>

\* A pending timer fires (1286-1288): startNewRound() with the target
\* length the timer captured.
NextRoundTimeoutDyn ==
  /\ dynamicGame.timers # <<>>
  /\ \E w \in availablePairs(Head(dynamicGame.timers)) :
       dynamicGame' =
         [startNewRoundDyn(dynamicGame, w) EXCEPT !.timers = Tail(@)]
  /\ UNCHANGED <<scorerVars, gameVars, earlierCall, progress, now>>

\* resetGame (1341-1347), the Restart Game button of the game-over panel
\* (1499-1504).
resetGameDyn ==
  /\ dynamicGame.flipped
  /\ dynamicGame.gameOver
  /\ \E w \in availablePairs(dynamicGame.currentTargetLength) :
       dynamicGame' =
         startNewRoundDyn([dynamicGame EXCEPT !.score = 0,
                                              !.gameOver = FALSE,
                                              !.playerName = "",
                                              !.showNamePrompt = FALSE], w)
  /\ UNCHANGED <<scorerVars, gameVars, earlierCall, progress, now>>

DifficultyInit ==
  /\ ScorerIdle
  /\ Mounted(<<>>)
  /\ earlierCall = NoCall
  /\ progress = NoProgress
  /\ now = 0
  /\ \E lb \in StoredLeaderboards :
       \E w \in availablePairs(InitialTargetLength) :
         dynamicGame = MountedDyn(w, lb)

DifficultyNext ==
  \/ CountdownTickDyn
  \/ \E letter \in KeysDyn : handleLetterClickDyn(letter)
  \/ handleBackspaceDyn
  \/ handleGuessSubmitDyn
  \/ NextRoundTimeoutDyn
  \/ resetGameDyn

DifficultySpec == DifficultyInit /\ [][DifficultyNext]_vars

\* ------------------------------------------------------------------------
\* Claims on the flashcard game (GameSpec)
\* ------------------------------------------------------------------------
\* C13: within one session (Start Game until game over) each word of the
\* shuffled pool becomes the current word at most once.
C13_EachWordOnce ==
  \A j \in 1..Len(shown) : \A k \in 1..Len(shown) :
    shown[j] = shown[k] => j = k

\* The guesses of the round that differ from the current word.
Incorrect ==
  {k \in 1..Len(guessHistory) : ~isCorrect(guessHistory[k], currentPair.word)}

\* The step appends the third guess of a round whose guesses are all wrong.
ThirdIncorrectGuess ==
  /\ Len(guessHistory) = MAX_ATTEMPTS - 1
  /\ Len(guessHistory') = MAX_ATTEMPTS
  /\ SubSeq(guessHistory', 1, MAX_ATTEMPTS - 1) = guessHistory
  /\ currentPair' = currentPair
  /\ \A k \in 1..MAX_ATTEMPTS : ~isCorrect(guessHistory'[k], currentPair.word)

\* The round has used up its guesses.
RoundExhausted ==
  attempt >= MAX_ATTEMPTS \/ Len(guessHistory) >= MAX_ATTEMPTS

C15_HintOnlyAfterDelayOrMiss ==
  /\ (gameStarted /\ ~flipped) => ~hintAvailable
  /\ (gameStarted /\ hintAvailable) => (sinceFlip3s \/ Incorrect # {})

C15_Witness ==
  /\ InputEnabled
  /\ Len(shown) >= 2
  /\ hintAvailable
  /\ ~sinceFlip3s
  /\ Incorrect # {}

\* C16: when the Hint button is pressed, the text handed to the
\* text-to-speech call is the phonemic pattern of the current pair, not
\* the word itself.
C16_HintSpeaksPattern ==
  ttsInput.template = speakPattern(<<>>).template =>
    /\ ttsInput.text = currentPair.pattern
    /\ ttsInput.text # currentPair.word

\* The step submits a guess that spells the current word.
CorrectGuess ==
  /\ Len(guessHistory') = Len(guessHistory) + 1
  /\ SubSeq(guessHistory', 1, Len(guessHistory)) = guessHistory
  /\ currentPair' = currentPair
  /\ isCorrect(guessHistory'[Len(guessHistory')], currentPair.word)

\* 25 * L reduced by 20% of it per incorrect guess, rounded down, >= 0.
Award(L, k) ==
  MaxOf((25 * L * (10 - 2 * k)) \div 10, 0)

\* C17: a correct guess made after k incorrect guesses in the same round
\* raises the score by 25 * L reduced by 20% of that per incorrect guess:
\* by 25 * L, 20 * L, 15 * L for k = 0, 1, 2 and word length L.
C17_ScorePerIncorrectGuess ==
  [][CorrectGuess =>
       score' = score + Award(Len(currentPair.word), Cardinality(Incorrect))]_vars

\* The step ends the running session.
SessionEnds ==
  gameStarted /\ ~gameOver /\ gameOver'

\* C19: when a session ends (timer at zero, or all words completed) the
\* name prompt is shown exactly when the leaderboard holds fewer than 5
\* entries or the final score, with the points of the last round, is
\* greater than the lowest score on the leaderboard.
C19_PromptIffFinalScoreQualifies ==
  [][SessionEnds =>
       (showNamePrompt' <=>
          \/ Len(leaderboard') < LeaderboardSize
          \/ score' > MinScore(leaderboard'))]_vars

\* The round of the last remaining word has finished while the session
\* timer runs: its next-round timer is pending and will find no word left.
FinishedLastRound ==
  /\ gameStarted
  /\ ~gameOver
  /\ globalTimer > 0
  /\ nextRoundTimers # <<>>
  /\ nextRoundTimers[Len(nextRoundTimers)].availableWords = <<>>

CompletedOver ==
  gameOver /\ message = MsgCompleted

\* A finished last round leads to the game being over with the completion
\* message.
CompletionEventually ==
  FinishedLastRound ~> CompletedOver

\* Only Restart (resetGame, the step that leaves the game screen) ends the
\* completed game.
OverUntilRestart ==
  [][CompletedOver => (gameOver' \/ (gameStarted /\ ~gameStarted'))]_vars

\* C18: if the round of the last remaining word finishes before the
\* session timer reaches zero, the game eventually becomes over with the
\* message "Congratulations! You completed all the words!" and stays over
\* until Restart.
C18_CompletionEndsGame ==
  CompletionEventually /\ OverUntilRestart

\* ------------------------------------------------------------------------
\* Claims on repeated invocations of the scorer (PureSpec)
\* ------------------------------------------------------------------------
\* C11: scoring a guess leaves the game state (current word, guess
\* history, current guess, attempt, score) unchanged, and an invocation
\* returns what any earlier invocation with the same target and guess
\* returned, whatever was scored in between.
C11_PureFunction ==
  /\ [][pc # "done" =>
          UNCHANGED <<currentPair, guessHistory, currentGuess, attempt, score>>]_vars
  /\ []((/\ pc = "done"
         /\ earlierCall.kind = "call"
         /\ earlierCall.target = target
         /\ earlierCall.guess = guess)
          => /\ result.status = earlierCall.status
             /\ result.cells = earlierCall.cells)

C11_Witness ==
  /\ pc = "done"
  /\ result.kind = "row"
  /\ earlierCall.kind = "call"
  /\ earlierCall.target = target
  /\ earlierCall.guess = guess
  /\ earlierCall.status = result.status
  /\ letterCounts # EmptyMap

\* ------------------------------------------------------------------------
\* Claims on the challenge tracker (ChallengeSpec)
\* ------------------------------------------------------------------------
\* The report of the task id among the reports of a day.
ReportOf(reports, id) ==
  reports[CHOOSE k \in 1..Len(reports) : reports[k].id = id]

\* The days d' of week w up to the target day d on which the progress holds
\* a completed entry of the task.
CompletedDays(id, w, d) ==
  {dd \in ((w - 1) * 7 + 1)..d :
     /\ <<dd, id>> \in DOMAIN progress.task_completions
     /\ progress.task_completions[<<dd, id>>].completed}

Earliest(S) ==
  CHOOSE m \in S : \A x \in S : m <= x

\* C20: for a weekly task scheduled in week w and a target day d of week w,
\* getUserDayTasks reports the task as completed iff the progress holds a
\* completed entry of it on a day d' with (first day of w) <= d' <= d;
\* later days of the week and other weeks do not count, and the reported
\* completion time and notes are those of the earliest such day.
C20_WeeklyCompletedUpToTargetDay ==
  progress # NoProgress =>
    \A day \in 0..MaxDay :
      LET d == IF day = 0 THEN progress.current_day ELSE day
          w == (d + 6) \div 7
          reports == getUserDayTasks(progress, taskTemplates, day)
      IN  \A k \in 1..Len(taskTemplates) :
            LET t == taskTemplates[k]
            IN  (t.type = "weekly" /\ w \in t.occurrences) =>
                  LET r == ReportOf(reports, t.id)
                      S == CompletedDays(t.id, w, d)
                  IN  /\ r.completed <=> S # {}
                      /\ S # {} =>
                           /\ r.completedAt =
                                progress.task_completions[<<Earliest(S), t.id>>].completed_at
                           /\ r.notes =
                                progress.task_completions[<<Earliest(S), t.id>>].notes
                      /\ S = {} => (r.completedAt = NoDate /\ r.notes = Undefined)

\* The weekly task w1 was completed on two days of week 1 with different
\* notes: seen from the later day it is reported with the earlier day's
\* entry, seen from the day before the earlier one it is open, and seen
\* from day 8 (week 2) it is open as well.
C20_Witness ==
  /\ progress # NoProgress
  /\ progress.current_day = 8
  /\ \E d1 \in 2..6 : \E d2 \in (d1 + 1)..7 :
       /\ IsCompleted(progress, d1, "w1")
       /\ IsCompleted(progress, d2, "w1")
       /\ progress.task_completions[<<d1, "w1">>].notes
            # progress.task_completions[<<d2, "w1">>].notes
       /\ ReportOf(getUserDayTasks(progress, taskTemplates, d2), "w1").notes
            = progress.task_completions[<<d1, "w1">>].notes
       /\ ~ReportOf(getUserDayTasks(progress, taskTemplates, d1 - 1), "w1").completed
       /\ ~ReportOf(getUserDayTasks(progress, taskTemplates, 0), "w1").completed

\* ------------------------------------------------------------------------
\* The budget built the other way round: the full letter histogram of the
\* target, decremented once for every exact match.
\* ------------------------------------------------------------------------
Histogram(tw) ==
  [c \in Range(tw) |-> Occ(c, tw)]

RECURSIVE DecrementExact(_, _, _, _, _)
DecrementExact(lc, tw, g, k, n) ==
  IF k < n
    THEN DecrementExact(IF GuessedLetter(g, k) = TargetLetter(tw, k)
                          THEN MapSet(lc, tw[k + 1], MapGetOr0(lc, tw[k + 1]) - 1)
                          ELSE lc,
                        tw, g, k + 1, n)
    ELSE lc

HistogramBudget(tw, g, n) ==
  DecrementExact(Histogram(tw), tw, g, 0, n)

\* The budget is complete from the end of the counting loop to the first
\* iteration of the second pass.
BudgetBuilt ==
  pc = "exact" \/ (pc = "second" /\ i = 0)

\* ------------------------------------------------------------------------
\* C21: when the counting loop has finished, letterCounts holds for every
\* letter the number the histogram of the target holds after one decrement
\* per exact match; and the row returned is the row the second pass yields
\* from that decremented histogram.
\* ------------------------------------------------------------------------
C21_BudgetEqualsDecrementedHistogram ==
  /\ BudgetBuilt =>
       \A c \in Chars :
         MapGetOr0(letterCounts, c)
           = MapGetOr0(HistogramBudget(targetWord, guess, totalCells), c)
  /\ Returned =>
       result.status
         = SecondLoop([ms |-> ExactLoop(FillNone(totalCells), targetWord, guess, 0, totalCells),
                       lc |-> HistogramBudget(targetWord, guess, totalCells)],
                      guess, 0, totalCells).ms

\* The budget of a letter that occurs twice in the target and is exactly
\* matched once, before the second pass spends it.
C21_Witness ==
  /\ pc = "second" /\ i = 0
  /\ \E c \in Chars :
       /\ Occ(c, targetWord) = 2
       /\ MapGetOr0(letterCounts, c) = 1
       /\ \E k \in 1..Len(guess) : Holds(k, c) /\ ~IsExact(k)

\* ------------------------------------------------------------------------
\* Claims on the dynamic-difficulty variant (DifficultySpec)
\* ------------------------------------------------------------------------
\* The word w has the length len, or no word has it and no word is closer.
FitsTargetLength(w, len) ==
  \/ Len(w) = len
  \/ /\ \A v \in wordPairsDyn : Len(v) # len
     /\ \A v \in wordPairsDyn : Abs(Len(w) - len) <= Abs(Len(v) - len)

\* A round that has just started shows a word fitting the target length.
RoundFitsTargetLength ==
  dynamicGame.started =>
    FitsTargetLength(dynamicGame.currentWord, dynamicGame.currentTargetLength)

\* A step that submits a correct guess (the only steps that raise score).
CorrectGuessDyn ==
  dynamicGame'.score > dynamicGame.score

\* Every fourth correct guess raises the target length by one and resets
\* the counter; every other one only raises the counter.
LevelRule ==
  [][CorrectGuessDyn =>
       IF dynamicGame.successfulCount = SuccessesPerLevel - 1
         THEN /\ dynamicGame'.currentTargetLength = dynamicGame.currentTargetLength + 1
              /\ dynamicGame'.successfulCount = 0
         ELSE /\ dynamicGame'.currentTargetLength = dynamicGame.currentTargetLength
              /\ dynamicGame'.successfulCount = dynamicGame.successfulCount + 1]_vars

\* ------------------------------------------------------------------------
\* C22: every round that starts shows a word of the current target length
\* (or of the closest length when no word has it), the round started right
\* after the fourth correct guess included; and every fourth correct guess
\* raises the target length by one and resets the success counter.
\* ------------------------------------------------------------------------
C22_RoundsFollowTargetLength ==
  /\ []RoundFitsTargetLength
  /\ LevelRule

\* ------------------------------------------------------------------------
\* Claims on the session timer (GameSpec, GameTickFairSpec)
\* ------------------------------------------------------------------------
\* A tick of the session interval takes one second off the timer, and
\* within a session nothing else moves the timer.
TickTakesOne ==
  /\ [][GlobalTick => globalTimer' = globalTimer - 1]_vars
  /\ [][gameStarted /\ gameStarted' =>
          globalTimer' \in {globalTimer, globalTimer - 1}]_vars

\* The step that brings the timer to 0 ends the game with the message.
ZeroEndsGame ==
  [][globalTimer # 0 /\ globalTimer' = 0 =>
       gameOver' /\ message' = MsgTimeUp]_vars

\* A session that is running is over at some later point.
SessionEventuallyOver ==
  (gameStarted /\ ~gameOver) ~> gameOver

\* The timer stands still as long as the game stays over.
FrozenWhileOver ==
  [][gameOver /\ gameOver' => globalTimer' = globalTimer]_vars

\* ------------------------------------------------------------------------
\* C23: in a started session every tick lowers the session timer by one,
\* the timer is never negative, the step that brings it to 0 sets gameOver
\* with the message "Time's up! Game Over!", the timer stands still while
\* the game is over, and, the interval firing fairly, every running
\* session is eventually over.
\* ------------------------------------------------------------------------
C23_SessionTimerRunsOut ==
  /\ [](globalTimer >= 0)
  /\ TickTakesOne
  /\ ZeroEndsGame
  /\ SessionEventuallyOver
  /\ FrozenWhileOver

\* The timer went from its start value over a lower positive value to 0,
\* and the session is over with the message.
C23_Witness ==
  /\ gameStarted
  /\ gameOver
  /\ globalTimer = 0
  /\ SessionTicks >= 2
  /\ message = MsgTimeUp

\* ------------------------------------------------------------------------
\* Claims on the completion rate (ChallengeSpec)
\* ------------------------------------------------------------------------
\* The template lists the rate is asked for: all tasks, the weekly task of
\* weeks 1 and 2 alone, the weekly task of week 2 alone, and no task.
TemplateLists ==
  { taskTemplates, <<taskTemplates[2]>>, <<taskTemplates[3]>>, <<>> }

\* Every task getUserDayTasks lists for a day up to current_day is reported
\* as completed.
AllReportedCompleted(p, templates) ==
  \A day \in 1..p.current_day :
    LET dayTasks == getUserDayTasks(p, templates, day)
    IN  \A k \in 1..Len(dayTasks) : dayTasks[k].completed

\* No task is listed for any day up to current_day.
NothingScheduled(p, templates) ==
  \A day \in 1..p.current_day : getUserDayTasks(p, templates, day) = <<>>

\* ------------------------------------------------------------------------
\* C24: for a started challenge, getCompletionRate is 1 when every task
\* that getUserDayTasks lists for the days 1 to current_day is reported as
\* completed (and some task is listed), and is 0 when no task is listed on
\* any of those days.
\* ------------------------------------------------------------------------
C24_RateOneWhenAllReportedCompleted ==
  progress # NoProgress =>
    \A templates \in TemplateLists :
      LET rate == getCompletionRate(progress, templates)
      IN  /\ NothingScheduled(progress, templates) => rate.num = 0
          /\ (AllReportedCompleted(progress, templates)
                /\ ~NothingScheduled(progress, templates))
               => rate.num = rate.den

====
